---- MODULE Spec2Model ----
(***************************************************************************)
(* The AST explorer webview of vscode-hylo: the node store and the kind    *)
(* accessors of webview/types.ts, the tree projection (render* functions)  *)
(* and the three event listeners of ASTExplorerView.                       *)
(*                                                                         *)
(* JavaScript values are tagged records: [t |-> "null"],                   *)
(* [t |-> "undefined"], [t |-> "number", n |-> 3], [t |-> "string", ...],  *)
(* and objects.  An object whose keys matter in their order (an ASTNode,   *)
(* a parsed NodeID) is [t |-> "object", entries |-> <<[key, val], ...>>].  *)
(* A call that may throw returns [st |-> "ok", val |-> v] or               *)
(* [st |-> "throw", err |-> name].                                         *)
(***************************************************************************)
EXTENDS Integers, Sequences, FiniteSets, TLC

\* Longest list of NodeIDs (modulesIds, sources, decls, parameters) in an input.
MaxIds == 2

-----------------------------------------------------------------------------
(* JavaScript values and completions *)

Null == [t |-> "null"]

Undefined == [t |-> "undefined"]

Num(n) == [t |-> "number", n |-> n]

Str(s) == [t |-> "string", s |-> s]

Obj(entries) == [t |-> "object", entries |-> entries]

Ok(v) == [st |-> "ok", val |-> v]

Throw(e) == [st |-> "throw", err |-> e]

\* Statement sequencing: a throw in r ends the function, otherwise the
\* statements F that follow run with the value of r.
Bind(r, F(_)) == IF r.st = "throw" THEN r ELSE F(r.val)

\* `key in obj` for an object given by its entries.
HasKey(obj, key) == \E i \in 1..Len(obj.entries) : obj.entries[i].key = key

\* obj[key]: the value of the last entry with that key.
Get(obj, key) ==
  LET i == CHOOSE j \in 1..Len(obj.entries) :
             /\ obj.entries[j].key = key
             /\ \A k \in (j+1)..Len(obj.entries) : obj.entries[k].key # key
  IN obj.entries[i].val

\* xs.map(f) for an array of n elements, rs[i] being the completion of f on
\* element i: the elements are visited in order, the first throw ends the
\* visit and propagates, otherwise the result is the array of the values.
RECURSIVE MapFrom(_, _, _, _)
MapFrom(rs, n, i, acc) ==
  IF i > n THEN Ok(acc)
  ELSE LET r == rs[i] IN
       IF r.st = "throw" THEN r ELSE MapFrom(rs, n, i + 1, Append(acc, r.val))

MapCompletions(rs, n) == MapFrom(rs, n, 1, <<>>)

-----------------------------------------------------------------------------
(* Strings: number formatting, JSON.stringify of a NodeID, JSON.parse *)

Char(s, i) == SubSeq(s, i, i)

DigitChars == "0123456789"

IsDigit(c) == \E d \in 1..10 : Char(DigitChars, d) = c

DigitOf(c) == (CHOOSE d \in 1..10 : Char(DigitChars, d) = c) - 1

RECURSIVE NatToString(_)
NatToString(n) ==
  IF n < 10 THEN Char(DigitChars, n + 1)
  ELSE NatToString(n \div 10) \o Char(DigitChars, (n % 10) + 1)

NumberToString(n) == IF n < 0 THEN "-" \o NatToString(-n) ELSE NatToString(n)

\* The serialization without the offset.
JSONstringifyBaseOnly(id) == "{\"base\":" \o NumberToString(id.base) \o "}"

\* JSON.stringify(id) of a NodeID {base, offset}.
JSONstringify(id) ==
  "{\"base\":" \o NumberToString(id.base) \o ",\"offset\":"
     \o NumberToString(id.offset) \o "}"

ParseFail == [ok |-> FALSE]

ParseOk(v, next) == [ok |-> TRUE, val |-> v, next |-> next]

RECURSIVE DigitsEnd(_, _)
DigitsEnd(s, i) ==
  IF i <= Len(s) /\ IsDigit(Char(s, i)) THEN DigitsEnd(s, i + 1) ELSE i

RECURSIVE DigitsValue(_, _, _, _)
DigitsValue(s, i, j, acc) ==
  IF i >= j THEN acc
  ELSE DigitsValue(s, i + 1, j, 10 * acc + DigitOf(Char(s, i)))

\* A step of the parser fails when the step before it failed.
AndThen(r, F(_)) == IF r.ok THEN F(r) ELSE ParseFail

\* The character c at position i, or failure.
Expect(s, i, c) ==
  IF i <= Len(s) /\ Char(s, i) = c THEN ParseOk(Null, i + 1) ELSE ParseFail

NumberFrom(s, neg, b, e) ==
  IF e = b THEN ParseFail
  ELSE ParseOk(Num(IF neg THEN 0 - DigitsValue(s, b, e, 0)
                   ELSE DigitsValue(s, b, e, 0)), e)

UnsignedFrom(s, neg, b) ==
  NumberFrom(s, neg, b,
             IF b <= Len(s) /\ Char(s, b) = "0" THEN b + 1 ELSE DigitsEnd(s, b))

\* A JSON integer at position i: -? (0 | [1-9][0-9]*).
ParseNumber(s, i) ==
  IF i <= Len(s) /\ Char(s, i) = "-"
  THEN UnsignedFrom(s, TRUE, i + 1)
  ELSE UnsignedFrom(s, FALSE, i)

RECURSIVE QuoteAt(_, _)
QuoteAt(s, i) ==
  IF i > Len(s) THEN 0
  ELSE IF Char(s, i) = "\"" THEN i
  ELSE QuoteAt(s, i + 1)

StringUpTo(s, i, q) ==
  IF q = 0 THEN ParseFail ELSE ParseOk(Str(SubSeq(s, i, q - 1)), q + 1)

\* A JSON string without escapes at position i.
ParseString(s, i) ==
  AndThen(Expect(s, i, "\""), LAMBDA open : StringUpTo(s, open.next, QuoteAt(s, open.next)))

\* The JSON values of the inputs that are given as text: null, integers,
\* strings, and objects of these (no arrays, no white space).
RECURSIVE ParseValue(_, _), ParseMembers(_, _, _)
ParseValue(s, i) ==
  IF i > Len(s) THEN ParseFail
  ELSE IF i + 3 <= Len(s) /\ SubSeq(s, i, i + 3) = "null"
       THEN ParseOk(Null, i + 4)
  ELSE IF Char(s, i) = "{" THEN
         IF i + 1 <= Len(s) /\ Char(s, i + 1) = "}"
         THEN ParseOk(Obj(<<>>), i + 2)
         ELSE ParseMembers(s, i + 1, <<>>)
  ELSE IF Char(s, i) = "\"" THEN ParseString(s, i)
  ELSE ParseNumber(s, i)

\* After a member: "}" ends the object, "," starts the next member.
AfterMember(s, i, acc) ==
  IF i > Len(s) THEN ParseFail
  ELSE IF Char(s, i) = "}" THEN ParseOk(Obj(acc), i + 1)
  ELSE IF Char(s, i) = "," THEN ParseMembers(s, i + 1, acc)
  ELSE ParseFail

ParseMembers(s, i, acc) ==
  AndThen(ParseString(s, i), LAMBDA k :
  AndThen(Expect(s, k.next, ":"), LAMBDA colon :
  AndThen(ParseValue(s, colon.next), LAMBDA v :
  AfterMember(s, v.next, Append(acc, [key |-> k.val.s, val |-> v.val])))))

WholeText(s, r) ==
  IF r.ok /\ r.next = Len(s) + 1 THEN Ok(r.val) ELSE Throw("SyntaxError")

\* JSON.parse(s): the value, or a SyntaxError.
JSONparse(s) == WholeText(s, ParseValue(s, 1))

-----------------------------------------------------------------------------
(* webview/types.ts: the node store and the kind accessors *)

\* An array index that no array has (a missing or non-numeric property).
NotAnIndex == -1

\* from.nodes[id.base][id.offset].  Reading a property of null or undefined
\* throws a TypeError; reading an index an array does not have is undefined.
node(from, id) ==
  IF from.t # "object" THEN Throw("TypeError")
  ELSE IF "nodes" \notin DOMAIN from THEN Throw("TypeError")
  ELSE IF id.base \notin 0..(Len(from.nodes) - 1) THEN Throw("TypeError")
  ELSE IF id.offset \notin 0..(Len(from.nodes[id.base + 1]) - 1) THEN Ok(Undefined)
  ELSE Ok(from.nodes[id.base + 1][id.offset + 1])

\* asX with a default value in the place of the throw.
asXOrUndefined(n, key) ==
  IF n.t # "object" THEN Throw("TypeError")
  ELSE IF HasKey(n, key) THEN Ok(Get(n, key))
  ELSE Ok(Undefined)

\* `key in node` throws a TypeError when node is not an object.
asX(n, key) ==
  IF n.t # "object" THEN Throw("TypeError")
  ELSE IF HasKey(n, key) THEN Ok(Get(n, key))
  ELSE Throw("Error: Expected " \o key)

asFunctionDecl(n) == asX(n, "FunctionDecl")

asModuleDecl(n) == asX(n, "ModuleDecl")

asTranslationUnit(n) == asX(n, "TranslationUnit")

asProductTypeDecl(n) == asX(n, "ProductTypeDecl")

asParameterDecl(n) == asX(n, "ParameterDecl")

isX(n, key) ==
  IF n.t # "object" THEN Throw("TypeError") ELSE Ok(HasKey(n, key))

isFunctionDecl(n) == isX(n, "FunctionDecl")

isModuleDecl(n) == isX(n, "ModuleDecl")

isTranslationUnit(n) == isX(n, "TranslationUnit")

isProductTypeDecl(n) == isX(n, "ProductTypeDecl")

\* Object.keys(node)[0]; Object.keys(undefined) throws a TypeError.  The
\* first key of an object without keys is undefined, written "" here (no
\* case label of a switch equals it).
nodeKind(n) ==
  IF n.t # "object" THEN Throw("TypeError")
  ELSE IF n.entries = <<>> THEN Ok("")
  ELSE Ok(n.entries[1].key)

siteField(d) == Ok(d.site)

\* siteOf with the site of the module in the ModuleDecl case.
siteOfKindWithModuleSite(n, kind) ==
  CASE kind = "FunctionDecl" -> Bind(asFunctionDecl(n), siteField)
    [] kind = "ModuleDecl" -> Bind(asModuleDecl(n), siteField)
    [] kind = "TranslationUnit" -> Bind(asTranslationUnit(n), siteField)
    [] kind = "ProductTypeDecl" -> Bind(asProductTypeDecl(n), siteField)
    [] kind = "ParameterDecl" -> Bind(asParameterDecl(n), siteField)
    [] kind = "missing" -> Ok(Null)
    [] OTHER -> Ok(Undefined)

\* The switch has no default: a kind without a case returns undefined.
siteOfKind(n, kind) ==
  CASE kind = "FunctionDecl" -> Bind(asFunctionDecl(n), siteField)
    [] kind = "ModuleDecl" -> Ok(Null)
    [] kind = "TranslationUnit" -> Bind(asTranslationUnit(n), siteField)
    [] kind = "ProductTypeDecl" -> Bind(asProductTypeDecl(n), siteField)
    [] kind = "ParameterDecl" -> Bind(asParameterDecl(n), siteField)
    [] kind = "missing" -> Ok(Null)
    [] OTHER -> Ok(Undefined)

siteOf(n) == Bind(nodeKind(n), LAMBDA kind : siteOfKind(n, kind))

-----------------------------------------------------------------------------
(* The tree projection: the render functions of the webview script *)

uniformIcon(iconName) ==
  [branch |-> iconName, leaf |-> iconName, open |-> iconName]

highlightAction ==
  [actionId |-> "highlightFullDeclaration", icon |-> "open-preview",
   tooltip |-> "Highligh Declaration"]

kindDecoration(kind) ==
  [content |-> kind, color |-> "var(--vscode-textLink-foreground)",
   appearance |-> "text"]

RECURSIVE SlashAt(_, _)
SlashAt(s, i) ==
  IF i = 0 THEN 0
  ELSE IF Char(s, i) = "/" THEN i
  ELSE SlashAt(s, i - 1)

\* The label without the split: all of s.
LastSegmentWhole(s) == s

\* s.split('/').pop(): what follows the last '/', all of s when it has none.
LastSegment(s) == SubSeq(s, SlashAt(s, Len(s)) + 1, Len(s))

\* renderMissing with the actions array of the other render functions.
renderMissingWithAction(snapshot, nodeId) ==
  Bind(node(snapshot, nodeId), LAMBDA n :
  Bind(nodeKind(n), LAMBDA kind :
  Ok([icons |-> uniformIcon("question"),
      label |-> "Unknown",
      value |-> JSONstringify(nodeId),
      subItems |-> <<>>,
      decorations |-> <<[content |-> kind,
                         color |-> "var(--vscode-errorForeground)",
                         appearance |-> "text"]>>,
      actions |-> <<highlightAction>>])))

renderMissing(snapshot, nodeId) ==
  Bind(node(snapshot, nodeId), LAMBDA n :
  Bind(nodeKind(n), LAMBDA kind :
  Ok([icons |-> uniformIcon("question"),
      label |-> "Unknown",
      value |-> JSONstringify(nodeId),
      subItems |-> <<>>,
      decorations |-> <<[content |-> kind,
                         color |-> "var(--vscode-errorForeground)",
                         appearance |-> "text"]>>])))

renderProductTypeDecl(snapshot, productTypeDeclId) ==
  Bind(node(snapshot, productTypeDeclId), LAMBDA r :
  Bind(asProductTypeDecl(r), LAMBDA n :
  Ok([icons |-> uniformIcon("symbol-class"),
      label |-> n.name,
      value |-> JSONstringify(productTypeDeclId),
      subItems |-> <<>>,
      decorations |-> <<kindDecoration("ProductTypeDecl")>>,
      actions |-> <<highlightAction>>])))

renderParameterDecl(snapshot, parameterDeclId) ==
  Bind(node(snapshot, parameterDeclId), LAMBDA r :
  Bind(asParameterDecl(r), LAMBDA n :
  Ok([icons |-> uniformIcon("symbol-parameter"),
      label |-> n.identifier \o " (label: "
                  \o (IF "label" \in DOMAIN n THEN n.label ELSE "<none>")
                  \o ")",
      value |-> JSONstringify(parameterDeclId),
      subItems |-> <<>>,
      decorations |-> <<kindDecoration("ParameterDecl")>>,
      actions |-> <<highlightAction>>])))

\* The render functions call each other; `active` holds the calls that have
\* not returned yet.  A call that is active already repeats itself without
\* end, the snapshot being cyclic: the call stack overflows, a RangeError.
Call(function, nodeId) == <<function, nodeId>>

RECURSIVE renderModuleDecl(_, _, _), renderTranslationUnitDecl(_, _, _),
          renderAnyDecl(_, _, _)

\* renderTranslationUnitDecl with an open action next to the highlight.
renderTranslationUnitDeclWithOpen(snapshot, translationUnitId, active) ==
  IF Call("renderTranslationUnitDecl", translationUnitId) \in active
  THEN Throw("RangeError") ELSE
  Bind(node(snapshot, translationUnitId), LAMBDA r :
  Bind(asTranslationUnit(r), LAMBDA translationUnit :
  Bind(MapCompletions(
         [i \in 1..Len(translationUnit.decls) |->
            renderAnyDecl(snapshot, translationUnit.decls[i],
                          active \cup {Call("renderTranslationUnitDecl",
                                            translationUnitId)})],
         Len(translationUnit.decls)), LAMBDA subs :
  Ok([icons |-> uniformIcon("file"),
      label |-> LastSegment(translationUnit.site.fileUrl),
      tooltip |-> translationUnit.site.fileUrl,
      value |-> JSONstringify(translationUnitId),
      actions |-> <<highlightAction,
                    [actionId |-> "openSourceFile", icon |-> "go-to-file",
                     tooltip |-> "Open"]>>,
      subItems |-> subs]))))

renderModuleDecl(snapshot, moduleId, active) ==
  IF Call("renderModuleDecl", moduleId) \in active THEN Throw("RangeError") ELSE
  Bind(node(snapshot, moduleId), LAMBDA r :
  Bind(asModuleDecl(r), LAMBDA moduleDecl :
  Bind(MapCompletions(
         [i \in 1..Len(moduleDecl.sources) |->
            renderTranslationUnitDecl(snapshot, moduleDecl.sources[i],
                                      active \cup {Call("renderModuleDecl", moduleId)})],
         Len(moduleDecl.sources)), LAMBDA subs :
  Ok([icons |-> uniformIcon("file-submodule"),
      label |-> moduleDecl.baseName,
      value |-> JSONstringify(moduleId),
      subItems |-> subs]))))

renderTranslationUnitDecl(snapshot, translationUnitId, active) ==
  IF Call("renderTranslationUnitDecl", translationUnitId) \in active THEN Throw("RangeError") ELSE
  Bind(node(snapshot, translationUnitId), LAMBDA r :
  Bind(asTranslationUnit(r), LAMBDA translationUnit :
  Bind(MapCompletions(
         [i \in 1..Len(translationUnit.decls) |->
            renderAnyDecl(snapshot, translationUnit.decls[i],
                          active \cup {Call("renderTranslationUnitDecl",
                                            translationUnitId)})],
         Len(translationUnit.decls)), LAMBDA subs :
  Ok([icons |-> uniformIcon("file"),
      label |-> LastSegment(translationUnit.site.fileUrl),
      tooltip |-> translationUnit.site.fileUrl,
      value |-> JSONstringify(translationUnitId),
      actions |-> <<highlightAction>>,
      subItems |-> subs]))))

\* renderFunctionDecl with the parameters as the children of the function.
renderFunctionDeclFlat(snapshot, functionDeclId) ==
  Bind(node(snapshot, functionDeclId), LAMBDA r :
  Bind(asFunctionDecl(r), LAMBDA n :
  Bind(MapCompletions(
         [i \in 1..Len(n.parameters) |->
            renderParameterDecl(snapshot, n.parameters[i])],
         Len(n.parameters)), LAMBDA subs :
  Ok([icons |-> uniformIcon("symbol-function"),
      label |-> n.name,
      value |-> JSONstringify(functionDeclId),
      subItems |-> subs,
      decorations |-> <<kindDecoration("FunctionDecl")>>,
      actions |-> <<highlightAction>>]))))

renderFunctionDecl(snapshot, functionDeclId) ==
  Bind(node(snapshot, functionDeclId), LAMBDA r :
  Bind(asFunctionDecl(r), LAMBDA n :
  Bind(MapCompletions(
         [i \in 1..Len(n.parameters) |->
            renderParameterDecl(snapshot, n.parameters[i])],
         Len(n.parameters)), LAMBDA subs :
  Ok([icons |-> uniformIcon("symbol-function"),
      label |-> n.name,
      value |-> JSONstringify(functionDeclId),
      subItems |-> <<[icons |-> uniformIcon("symbol-property"),
                      label |-> "parameters",
                      value |-> "n",
                      subItems |-> subs]>>,
      decorations |-> <<kindDecoration("FunctionDecl")>>,
      actions |-> <<highlightAction>>]))))

\* The switch has no default: a kind without a case returns undefined.
renderKind(snapshot, nodeId, kind, active) ==
  CASE kind = "ModuleDecl" -> renderModuleDecl(snapshot, nodeId, active)
    [] kind = "FunctionDecl" -> renderFunctionDecl(snapshot, nodeId)
    [] kind = "TranslationUnit" -> renderTranslationUnitDecl(snapshot, nodeId, active)
    [] kind = "missing" -> renderMissing(snapshot, nodeId)
    [] kind = "ProductTypeDecl" -> renderProductTypeDecl(snapshot, nodeId)
    [] kind = "ParameterDecl" -> renderParameterDecl(snapshot, nodeId)
    [] OTHER -> Ok(Undefined)

renderAnyDecl(snapshot, nodeId, active) ==
  IF Call("renderAnyDecl", nodeId) \in active THEN Throw("RangeError") ELSE
  Bind(node(snapshot, nodeId), LAMBDA r :
  Bind(nodeKind(r), LAMBDA kind :
  renderKind(snapshot, nodeId, kind, active \cup {Call("renderAnyDecl", nodeId)})))

\* The projection with the modules in the reverse order.
ProjectReversed(snapshot) ==
  IF snapshot.t \in {"null", "undefined"} THEN Throw("TypeError")
  ELSE IF "modulesIds" \notin DOMAIN snapshot THEN Throw("TypeError")
  ELSE MapCompletions([i \in 1..Len(snapshot.modulesIds) |->
                         renderModuleDecl(snapshot,
                           snapshot.modulesIds[Len(snapshot.modulesIds) + 1 - i],
                           {})],
                      Len(snapshot.modulesIds))

\* ast.modulesIds.map((moduleId) => renderModuleDecl(ast, moduleId))
Project(snapshot) ==
  IF snapshot.t \in {"null", "undefined"} THEN Throw("TypeError")
  ELSE IF "modulesIds" \notin DOMAIN snapshot THEN Throw("TypeError")
  ELSE MapCompletions([i \in 1..Len(snapshot.modulesIds) |->
                         renderModuleDecl(snapshot, snapshot.modulesIds[i], {})],
                      Len(snapshot.modulesIds))

-----------------------------------------------------------------------------
(* The inputs: the texts a user enters into the AST field *)

Id(b, o) == [base |-> b, offset |-> o]

Site(url, sl, sc, el, ec) ==
  [start |-> [line |-> sl, column |-> sc],
   end |-> [line |-> el, column |-> ec],
   fileUrl |-> url]

Node(kind, payload) == Obj(<<[key |-> kind, val |-> payload]>>)

moduleM == Id(0, 0)
unitA == Id(0, 1)
funMain == Id(0, 2)
missingNode == Id(0, 3)
newKindNode == Id(0, 4)
twoKeyNode == Id(0, 5)
paramX == Id(1, 0)
typeT == Id(1, 1)
moduleN == Id(1, 2)
paramY == Id(1, 3)
noSuchGroup == Id(2, 0)
noSuchOffset == Id(1, 7)

functionPayload(name, parameters) ==
  [name |-> name, site |-> Site("file:///a.src", 1, 1, 3, 2),
   parameters |-> parameters]

unitPayload(url, decls) == [decls |-> decls, site |-> Site(url, 1, 1, 9, 1)]

modulePayload(baseName, sources) ==
  [baseName |-> baseName, canAccessBuiltins |-> FALSE,
   site |-> Site("synthesized://M", 1, 1, 1, 1), sources |-> sources]

\* A snapshot: module M, unit a.src, function main and nodes of every other
\* kind, of a kind the schema does not know, and with two kind keys.
Snapshot(mods, srcs, dcls, prms) ==
  [t |-> "object",
   modulesIds |-> mods,
   nodes |-> <<
     << Node("ModuleDecl", modulePayload("M", srcs)),
        Node("TranslationUnit", unitPayload("file:///a.src", dcls)),
        Node("FunctionDecl", functionPayload("main", prms)),
        Node("missing", [site |-> Null]),
        Node("BindingDecl", [site |-> Site("file:///a.src", 2, 1, 2, 9)]),
        Obj(<<[key |-> "FunctionDecl", val |-> functionPayload("both", <<>>)],
              [key |-> "TranslationUnit",
               val |-> unitPayload("file:///c.src", <<>>)]>>) >>,
     << Node("ParameterDecl",
             [site |-> Site("file:///b.src", 8, 8, 8, 18),
              label |-> "l", identifier |-> "x"]),
        Node("ProductTypeDecl",
             [name |-> "T", site |-> Site("file:///b.src", 1, 1, 5, 2),
              identifierSite |-> Site("file:///b.src", 1, 6, 1, 7)]),
        Node("ModuleDecl", modulePayload("N", <<>>)),
        Node("ParameterDecl",
             [site |-> Site("file:///b.src", 9, 1, 9, 4), identifier |-> "y"]) >>
   >>]

\* The elements of pool at the positions S, in the order of the pool.
Pick(pool, S) ==
  [i \in 1..Cardinality(S) |->
     pool[CHOOSE x \in S : Cardinality({y \in S : y < x}) = i - 1]]

\* The lists of at most MaxIds ids of a pool, in the order of the pool.
Lists(pool) ==
  { Pick(pool, S) : S \in { T \in SUBSET (1..Len(pool)) : Cardinality(T) <= MaxIds } }

ModulePool == <<moduleM, moduleN, missingNode, noSuchGroup>>

SourcePool == <<unitA, missingNode, funMain>>

DeclPool == <<funMain, missingNode, newKindNode, twoKeyNode, typeT, moduleM,
              noSuchOffset>>

ParamPool == <<paramX, paramY, missingNode>>

\* Scenario A of the specification, and the snapshots that differ from it
\* in one list of ids.
ScenarioA == Snapshot(<<moduleM>>, <<unitA>>, <<funMain>>, <<>>)

Snapshots ==
  {Snapshot(l, <<unitA>>, <<funMain>>, <<>>) : l \in Lists(ModulePool)}
  \cup {Snapshot(<<moduleM>>, l, <<funMain>>, <<>>) : l \in Lists(SourcePool)}
  \cup {Snapshot(<<moduleM>>, <<unitA>>, l, <<>>) : l \in Lists(DeclPool)}
  \cup {Snapshot(<<moduleM>>, <<unitA>>, <<funMain>>, l) : l \in Lists(ParamPool)}

\* Valid JSON that is not a snapshot: an object with a module-id list and no
\* node groups.
Groupless == {[t |-> "object", modulesIds |-> l] : l \in {<<>>, <<moduleM>>}}

RawTexts == {"{not json", "null", "{}", "42"}

Texts ==
  {[raw |-> s] : s \in RawTexts} \cup {[doc |-> d] : d \in Snapshots \cup Groupless}

\* The text of the input field: a string, or a document that stands for the
\* JSON text of the value it holds.
JSONparseText(text) ==
  IF "raw" \in DOMAIN text THEN JSONparse(text.raw) ELSE Ok(text.doc)

\* The values the texts denote and the projection of each, computed once.
Parsed == {JSONparseText(text).val : text \in {x \in Texts : JSONparseText(x).st = "ok"}}

Projection == [d \in Parsed |-> Project(d)]

-----------------------------------------------------------------------------
(* ASTExplorerView: updateAst and the three event listeners.  A listener    *)
(* maps the view's fields and the event to the fields afterwards, the       *)
(* messages it posted, the lines it logged and the exception that left it   *)
(* ("none" when it returned).                                               *)

Outcome(a, d, p, l, e) ==
  [ast |-> a, data |-> d, posted |-> p, logged |-> l, thrown |-> e]

\* The state a listener leaves when the completion r of its statements is a
\* throw: nothing assigned, nothing posted, the lines l logged before it.
Leaves(curAst, curData, l, r) ==
  IF r.st = "throw" THEN Outcome(curAst, curData, <<>>, l, r.err) ELSE r.val

Assigned(newAst, curData, tree) ==
  IF tree.st = "throw"
  THEN Outcome(newAst, curData, <<>>, <<>>, tree.err)
  ELSE Outcome(newAst, tree.val, <<>>, <<>>, "none")

\* this.ast = ast, then this.astTreeView.data = the projection: when the
\* projection throws, the assignment to data does not happen.
updateAst(curData, newAst) == Assigned(newAst, curData, Projection[newAst])

\* try { ... } catch { handler }: the handler's outcome when the completion
\* r of the block is a throw, otherwise the statements F after the block.
Catch(r, handler, F(_)) == IF r.st = "throw" THEN handler ELSE F(r.val)

\* The listener with a catch block that returns without clearing the tree.
inputListenerKeepingTree(curAst, curData, text) ==
  Catch(JSONparseText(text),
        Outcome(curAst, curData, <<>>, <<>>, "none"),
        LAMBDA parsed : updateAst(curData, parsed))

\* The listener with a catch block that drops the snapshot as well.
inputListenerDroppingAst(curAst, curData, text) ==
  Catch(JSONparseText(text),
        Outcome(Null, <<>>, <<>>, <<>>, "none"),
        LAMBDA parsed : updateAst(curData, parsed))

\* try { ast = JSON.parse(...) } catch { data = []; return }; updateAst(ast)
inputListener(curAst, curData, text) ==
  Catch(JSONparseText(text),
        Outcome(curAst, <<>>, <<>>, <<>>, "none"),
        LAMBDA parsed : updateAst(curData, parsed))

NumberAt(v, key) == IF v.t = "number" THEN v.n ELSE NotAnIndex

\* `JSON.parse(value) as NodeID`: the base and offset that indexing reads.
IndexProp(v, key) ==
  IF v.t = "object" /\ HasKey(v, key) THEN NumberAt(Get(v, key), key)
  ELSE NotAnIndex

AsNodeID(v) == [base |-> IndexProp(v, "base"), offset |-> IndexProp(v, "offset")]

\* node(this.ast!, id) for a parsed id: reading id.base of null throws.
nodeOfParsed(curAst, v) ==
  IF v.t \in {"null", "undefined"} THEN Throw("TypeError")
  ELSE node(curAst, AsNodeID(v))

\* The post without the test of the site.
highlightPostedAlways(site) ==
  <<[type |-> "highlightFullDeclaration", range |-> site]>>

\* if (site) { postMessage({type: 'highlightFullDeclaration', range: site}) }
highlightPosted(site) ==
  IF site \in {Null, Undefined} THEN <<>>
  ELSE <<[type |-> "highlightFullDeclaration", range |-> site]>>

runActionListener(curAst, curData, actionId, item) ==
  CASE actionId = "openSourceFile" ->
         Leaves(curAst, curData, <<>>,
           Bind(JSONparse(item.value), LAMBDA id :
           Bind(nodeOfParsed(curAst, id), LAMBDA n :
           Bind(asTranslationUnit(n), LAMBDA translationUnit :
           Ok(Outcome(curAst, curData,
                      <<[type |-> "openSourceFile",
                         fileUrl |-> translationUnit.site.fileUrl]>>,
                      <<>>, "none"))))))
    [] actionId = "highlightFullDeclaration" ->
         Leaves(curAst, curData, <<"highlightFullDeclaration">>,
           Bind(JSONparse(item.value), LAMBDA id :
           Bind(nodeOfParsed(curAst, id), LAMBDA n :
           Bind(siteOf(n), LAMBDA site :
           Ok(Outcome(curAst, curData, highlightPosted(site),
                      <<"highlightFullDeclaration">>, "none"))))))
    [] OTHER -> Outcome(curAst, curData, <<>>, <<>>, "none")

\* if (isTranslationUnit(n)) { postMessage({type: 'openSourceFile', ...}) }
selectPosted(n, isUnit) ==
  IF isUnit
  THEN <<[type |-> "openSourceFile",
          fileUrl |-> Get(n, "TranslationUnit").site.fileUrl]>>
  ELSE <<>>

\* The listener without the try block: the parse error leaves it.
selectOfParsedUncaught(curAst, curData, value, parsed) ==
  IF parsed.st = "throw" \/ parsed.val = Null
  THEN Outcome(curAst, curData, <<>>, <<>>, "SyntaxError")
  ELSE Leaves(curAst, curData, <<>>,
         Bind(nodeOfParsed(curAst, parsed.val), LAMBDA n :
         Bind(isTranslationUnit(n), LAMBDA isUnit :
         Ok(Outcome(curAst, curData, selectPosted(n, isUnit), <<>>, "none")))))

\* The listener, were it to drop the snapshot when it posts.
selectOfParsedDroppingAst(curAst, curData, value, parsed) ==
  IF parsed.st = "throw" \/ parsed.val = Null
  THEN Outcome(curAst, curData, <<>>, <<"error parsing nodeId " \o value>>, "none")
  ELSE Leaves(curAst, curData, <<>>,
         Bind(nodeOfParsed(curAst, parsed.val), LAMBDA n :
         Bind(isTranslationUnit(n), LAMBDA isUnit :
         Ok(Outcome(Null, curData, selectPosted(n, isUnit), <<>>, "none")))))

selectOfParsed(curAst, curData, value, parsed) ==
  IF parsed.st = "throw" \/ parsed.val = Null
  THEN Outcome(curAst, curData, <<>>, <<"error parsing nodeId " \o value>>, "none")
  ELSE Leaves(curAst, curData, <<>>,
         Bind(nodeOfParsed(curAst, parsed.val), LAMBDA n :
         Bind(isTranslationUnit(n), LAMBDA isUnit :
         Ok(Outcome(curAst, curData, selectPosted(n, isUnit), <<>>, "none")))))

selectListener(curAst, curData, value) ==
  selectOfParsed(curAst, curData, value, JSONparse(value))

-----------------------------------------------------------------------------
(* The host: the message handler of the view provider *)

\* The first position of the character c in s from i on, 0 when none.
RECURSIVE IndexOf(_, _, _)
IndexOf(s, c, i) ==
  IF i > Len(s) THEN 0
  ELSE IF Char(s, i) = c THEN i
  ELSE IndexOf(s, c, i + 1)

\* What follows "//": the authority up to the next "/", then the path.
UriAfterSlashes(scheme, rest, slash) ==
  IF slash = 0
  THEN [scheme |-> scheme, authority |-> rest, path |-> ""]
  ELSE [scheme |-> scheme, authority |-> SubSeq(rest, 1, slash - 1),
        path |-> SubSeq(rest, slash, Len(rest))]

UriAfterScheme(scheme, rest) ==
  IF Len(rest) >= 2 /\ SubSeq(rest, 1, 2) = "//"
  THEN UriAfterSlashes(scheme, SubSeq(rest, 3, Len(rest)),
                       IndexOf(SubSeq(rest, 3, Len(rest)), "/", 1))
  ELSE [scheme |-> scheme, authority |-> "", path |-> rest]

UriFromColon(s, colon) ==
  IF colon = 0
  THEN [scheme |-> "file", authority |-> "", path |-> s]
  ELSE UriAfterScheme(SubSeq(s, 1, colon - 1), SubSeq(s, colon + 1, Len(s)))

\* vscode.Uri.parse(s): scheme ":" "//" authority path, the scheme being
\* "file" when s has none.
UriParse(s) == UriFromColon(s, IndexOf(s, ":", 1))

\* uri.toString() of a uri with an authority part.
UriToString(u) == u.scheme \o "://" \o u.authority \o u.path

Position(line, character) == [line |-> line, character |-> character]

IsBefore(p, q) ==
  p.line < q.line \/ (p.line = q.line /\ p.character < q.character)

\* new vscode.Range(start, end): start and end are swapped when end is
\* before start.
RangeOf(p, q) ==
  IF IsBefore(q, p) THEN [start |-> q, end |-> p] ELSE [start |-> p, end |-> q]

\* toVscodeRange without the translation of the coordinates.
toVscodeRangeUnshifted(range) ==
  RangeOf(Position(range.start.line, range.start.column),
          Position(range.end.line, range.end.column))

toVscodeRange(range) ==
  RangeOf(Position(range.start.line - 1, range.start.column - 1),
          Position(range.end.line - 1, range.end.column - 1))

NoDocument == [uri |-> Null, options |-> Null]

\* What a call of the handler leaves: the last call of showTextDocument and
\* the lines logged.
HostOutcome(s, l) == [shown |-> s, logged |-> l]

\* The switch has no default: a message of another type does nothing.
onDidReceiveMessage(curShown, d) ==
  CASE d.type = "openSourceFile" ->
         HostOutcome([uri |-> UriParse(d.fileUrl),
                      options |-> [preserveFocus |-> TRUE]],
                     <<[text |-> "openSourceFile", arg |-> d.fileUrl]>>)
    [] d.type = "highlightFullDeclaration" ->
         HostOutcome([uri |-> UriParse(d.range.fileUrl),
                      options |-> [selection |-> toVscodeRange(d.range)]],
                     <<[text |-> "highlightFullDeclaration", arg |-> d.range]>>)
    [] OTHER -> HostOutcome(curShown, <<>>)

-----------------------------------------------------------------------------
(* The view as a state machine *)

VARIABLES ast, data, posted, logged, thrown, ev

\* The host: the messages posted to it and not received yet, its last call
\* of showTextDocument and the lines its last handler logged.
VARIABLES inflight, shown, hostLogged

viewVars == <<ast, data, posted, logged, thrown, ev>>

\* The debug session: the position of launchRequest (pc), the launch it
\* serves, the protocol messages it sent to the client, the text of the
\* 'Hylo Debug' output channel, the child processes it spawned with the
\* promise spawnProcess returned for each, and the last callback that ran.
VARIABLES pc, launch, sent, channel, procs, callback

hostVars == <<inflight, shown, hostLogged>>

debugVars == <<pc, launch, sent, channel, procs, callback>>

vars == <<ast, data, posted, logged, thrown, ev, inflight, shown, hostLogged,
          pc, launch, sent, channel, procs, callback>>

\* The entries of a displayed tree, at every depth (an undefined element of
\* a child list is no entry).
RECURSIVE ItemsIn(_)
ItemsIn(items) ==
  UNION { IF items[i] = Undefined THEN {}
          ELSE {items[i]} \cup ItemsIn(items[i].subItems) : i \in 1..Len(items) }

Init ==
  /\ ast = Null
  /\ data = <<>>
  /\ posted = <<>>
  /\ logged = <<>>
  /\ thrown = "none"
  /\ ev = [type |-> "none"]
  /\ inflight = <<>>
  /\ shown = NoDocument
  /\ hostLogged = <<>>
  /\ pc = "idle"
  /\ launch = Null
  /\ sent = <<>>
  /\ channel = <<>>
  /\ procs = <<>>
  /\ callback = [name |-> "none"]

\* The user edits the AST field.
Input ==
  \E text \in Texts :
    \E o \in {inputListener(ast, data, text)} :
    /\ ast' = o.ast
    /\ data' = o.data
    /\ posted' = o.posted
    /\ logged' = o.logged
    /\ thrown' = o.thrown
    /\ ev' = [type |-> "input", text |-> text]
    /\ UNCHANGED hostVars
    /\ UNCHANGED debugVars

\* The user selects an entry of the displayed tree.
Select ==
  \E item \in ItemsIn(data) :
    \E o \in {selectListener(ast, data, item.value)} :
    /\ ast' = o.ast
    /\ data' = o.data
    /\ posted' = o.posted
    /\ logged' = o.logged
    /\ thrown' = o.thrown
    /\ ev' = [type |-> "vsc-select", value |-> item.value]
    /\ UNCHANGED hostVars
    /\ UNCHANGED debugVars

\* The user presses one of the action buttons of an entry.
RunAction ==
  \E item \in ItemsIn(data) :
    /\ "actions" \in DOMAIN item
    /\ \E k \in 1..Len(item.actions) :
         \E o \in {runActionListener(ast, data, item.actions[k].actionId, item)} :
         /\ ast' = o.ast
         /\ data' = o.data
         /\ posted' = o.posted
         /\ logged' = o.logged
         /\ thrown' = o.thrown
         /\ ev' = [type |-> "vsc-run-action",
                   actionId |-> item.actions[k].actionId,
                   value |-> item.value]
         /\ UNCHANGED hostVars
         /\ UNCHANGED debugVars

Next == Input \/ Select \/ RunAction

Spec == Init /\ [][Next]_vars

\* The host alone: the view posts some message, the host receives the
\* messages in the order they were posted.
MaxInFlight == 1

Urls == {"file:///a.src", "file:///b.src"}

Positions == {[line |-> l, column |-> c] : l \in {1, 8}, c \in {8, 18}}

\* The source ranges: the start is not after the end.
SourceRanges ==
  {r \in [start : Positions, end : Positions, fileUrl : Urls] :
     \/ r.start.line < r.end.line
     \/ (r.start.line = r.end.line /\ r.start.column <= r.end.column)}

Messages ==
  {[type |-> "openSourceFile", fileUrl |-> u] : u \in Urls}
  \cup {[type |-> "highlightFullDeclaration", range |-> r] : r \in SourceRanges}

Post ==
  \E m \in Messages :
    /\ Len(inflight) < MaxInFlight
    /\ inflight' = Append(inflight, m)
    /\ UNCHANGED <<shown, hostLogged>>
    /\ UNCHANGED viewVars
    /\ UNCHANGED debugVars

Receive ==
  /\ inflight # <<>>
  /\ \E o \in {onDidReceiveMessage(shown, Head(inflight))} :
       /\ shown' = o.shown
       /\ hostLogged' = o.logged
  /\ inflight' = Tail(inflight)
  /\ UNCHANGED viewVars
  /\ UNCHANGED debugVars

HostNext == Post \/ Receive

HostSpec == Init /\ [][HostNext]_vars

-----------------------------------------------------------------------------
(* Vocabulary of the properties *)

KnownKinds == {"ModuleDecl", "FunctionDecl", "TranslationUnit", "missing",
               "ProductTypeDecl", "ParameterDecl"}

HoldsGroups(snap) == snap.t = "object" /\ "nodes" \in DOMAIN snap

\* The bounds of the data model: 0 <= group < len(groups) and
\* 0 <= offset < len(groups[group]).
InBounds(snap, id) ==
  /\ HoldsGroups(snap)
  /\ id.base \in 0..(Len(snap.nodes) - 1)
  /\ id.offset \in 0..(Len(snap.nodes[id.base + 1]) - 1)

IsSnapshot(v) == HoldsGroups(v) /\ "modulesIds" \in DOMAIN v

\* The lists of ids a node carries, whatever its kind keys are.
IdListsOf(n) ==
  UNION { LET p == n.entries[i].val IN
          {p[f] : f \in DOMAIN p \cap {"sources", "decls", "parameters"}}
          : i \in 1..Len(n.entries) }

Range(seq) == {seq[i] : i \in 1..Len(seq)}

NodesOf(snap) == UNION {Range(snap.nodes[g]) : g \in 1..Len(snap.nodes)}

AllIdsInBounds(snap) ==
  /\ \A id \in Range(snap.modulesIds) : InBounds(snap, id)
  /\ \A n \in NodesOf(snap) : \A l \in IdListsOf(n) :
       \A id \in Range(l) : InBounds(snap, id)

\* The ids the node at id refers to (none when id is out of bounds).
RefsOf(snap, id) ==
  IF ~InBounds(snap, id) THEN {}
  ELSE UNION {Range(l) : l \in IdListsOf(node(snap, id).val)}

RECURSIVE SumLen(_)
SumLen(groups) ==
  IF groups = <<>> THEN 0 ELSE Len(Head(groups)) + SumLen(Tail(groups))

RECURSIVE ReachedIn(_, _, _)
ReachedIn(snap, ids, steps) ==
  IF steps = 0 THEN ids
  ELSE ReachedIn(snap, ids \cup UNION {RefsOf(snap, id) : id \in ids}, steps - 1)

\* No node refers to itself through a chain of references.
Acyclic(snap) ==
  \A g \in 1..Len(snap.nodes) : \A o \in 1..Len(snap.nodes[g]) :
    Id(g - 1, o - 1) \notin
      ReachedIn(snap, RefsOf(snap, Id(g - 1, o - 1)), SumLen(snap.nodes))

KindAt(snap, id) == nodeKind(node(snap, id).val).val

IsBadKind(k) == k = "missing" \/ k \notin KnownKinds

\* Every reference is in bounds and leads to a node of the kind its place
\* expects or to a bad node (kind missing, or a kind that is not known).
OnlyBadNodeDefects(snap) ==
  /\ AllIdsInBounds(snap)
  /\ \A id \in Range(snap.modulesIds) :
       KindAt(snap, id) = "ModuleDecl" \/ IsBadKind(KindAt(snap, id))
  /\ \A n \in NodesOf(snap) : \A i \in 1..Len(n.entries) :
       LET p == n.entries[i].val IN
       /\ "sources" \in DOMAIN p =>
            \A id \in Range(p.sources) :
              KindAt(snap, id) = "TranslationUnit" \/ IsBadKind(KindAt(snap, id))
       /\ "decls" \in DOMAIN p =>
            \A id \in Range(p.decls) :
              \/ KindAt(snap, id) \in {"FunctionDecl", "ProductTypeDecl", "ParameterDecl"}
              \/ IsBadKind(KindAt(snap, id))
       /\ "parameters" \in DOMAIN p =>
            \A id \in Range(p.parameters) :
              KindAt(snap, id) = "ParameterDecl" \/ IsBadKind(KindAt(snap, id))

\* The last event was an input event whose text parsed.
InputParsed == ev.type = "input" /\ JSONparseText(ev.text).st = "ok"

InputValue == JSONparseText(ev.text).val

\* The last event was a selection or action event whose value is a
\* serialized object.
EventCarriesId ==
  /\ ev.type \in {"vsc-select", "vsc-run-action"}
  /\ JSONparse(ev.value).st = "ok"
  /\ JSONparse(ev.value).val.t = "object"

EventId == AsNodeID(JSONparse(ev.value).val)

\* The displayed tree is the projection of the held snapshot.
Shown ==
  /\ IsSnapshot(ast)
  /\ Project(ast).st = "ok"
  /\ data = Project(ast).val

\* The entries displayed for the decls of the translation units of the
\* modules of the held snapshot, each with the id and the kind of its node.
DeclEntries ==
  IF ~Shown THEN {}
  ELSE UNION { LET m == asModuleDecl(node(ast, ast.modulesIds[mi]).val).val IN
       UNION { LET u == asTranslationUnit(node(ast, m.sources[ti]).val).val IN
               { [id |-> u.decls[di],
                  kind |-> KindAt(ast, u.decls[di]),
                  entry |-> data[mi].subItems[ti].subItems[di]]
                 : di \in 1..Len(u.decls) }
               : ti \in 1..Len(m.sources) }
       : mi \in 1..Len(ast.modulesIds) }

IsUnknownEntry(entry, kind) ==
  /\ entry # Undefined
  /\ entry.label = "Unknown"
  /\ entry.subItems = <<>>
  /\ "decorations" \in DOMAIN entry
  /\ Len(entry.decorations) = 1
  /\ entry.decorations[1].content = kind

-----------------------------------------------------------------------------
(* Properties *)

\* C1: a selection or action event whose NodeID does not resolve in the held
\* snapshot (group or offset out of bounds, or no snapshot held) is silent:
\* the listener posts no message and no exception leaves it.
C1_StaleReferenceIsSilent ==
  (EventCarriesId /\ ~InBounds(ast, EventId))
    => (posted = <<>> /\ thrown = "none")

\* C2: replacing the AST is atomic: the displayed tree is empty or it is the
\* projection of the snapshot held as current, never that of an older one.
C2_TreeIsOfCurrentSnapshot ==
  data = <<>> \/ (Project(ast).st = "ok" /\ data = Project(ast).val)

\* C3: projecting a snapshot whose referenced NodeIDs are all in bounds never
\* throws, whatever the kinds of the referenced nodes are (the snapshot being
\* acyclic, as the specification assumes of every snapshot).
C3_InBoundsProjectionNeverThrows ==
  (/\ InputParsed
   /\ IsSnapshot(InputValue)
   /\ AllIdsInBounds(InputValue)
   /\ Acyclic(InputValue))
    => thrown = "none"

\* C4: an input that is valid JSON but not of the AST shape leaves an empty
\* tree, and no exception leaves the input listener.
C4_WrongShapeGivesEmptyTree ==
  (InputParsed /\ ~IsSnapshot(InputValue))
    => (data = <<>> /\ thrown = "none")

\* C5: an input that is not parseable sets the displayed tree to the empty
\* sequence and no exception leaves the input listener, whatever was shown.
C5_UnparseableInputClearsTree ==
  (ev.type = "input" /\ JSONparseText(ev.text).st = "throw")
    => (data = <<>> /\ thrown = "none")

\* C5 witness: the text "{not json" was entered while a snapshot with a
\* non-empty projection was held.
C5_Witness ==
  /\ ev.type = "input"
  /\ ev.text = [raw |-> "{not json"]
  /\ IsSnapshot(ast)
  /\ Project(ast).st = "ok"
  /\ Project(ast).val # <<>>
  /\ data = <<>>

ProbeIds == {Id(b, o) : b \in -1..3, o \in -1..7}

\* C6: resolving an id that is out of the bounds of the held snapshot fails
\* with an out-of-range error; it never returns a value.
C6_ResolveChecksBounds ==
  \A id \in ProbeIds :
    (HoldsGroups(ast) /\ ~InBounds(ast, id))
      => (node(ast, id).st = "throw" /\ node(ast, id).err = "OutOfRangeError")

\* C7: a bad node (kind missing or not known) never aborts the projection of
\* its siblings, wherever it is referenced: the projection of a snapshot
\* whose only defects are bad nodes completes, with one entry per module id.
C7_BadNodeDoesNotAbortSiblings ==
  (InputParsed /\ IsSnapshot(InputValue) /\ OnlyBadNodeDefects(InputValue))
    => (thrown = "none" /\ Len(data) = Len(InputValue.modulesIds))

\* C8: a node of a kind that is not known is rendered by the unknown path:
\* label "Unknown", no children, and an annotation that is the raw kind tag.
C8_NewKindRendersAsUnknown ==
  \A r \in DeclEntries :
    r.kind \notin KnownKinds => IsUnknownEntry(r.entry, r.kind)

\* C9: a node of kind missing among the decls of a translation unit renders
\* as an entry with label "Unknown", no children, no actions and an
\* annotation with the content "missing".
C9_MissingRendersAsUnknown ==
  \A r \in DeclEntries :
    r.kind = "missing"
      => (IsUnknownEntry(r.entry, "missing") /\ "actions" \notin DOMAIN r.entry)

\* C9 witness: a missing node is displayed among the decls of a unit.
C9_Witness == \E r \in DeclEntries : r.kind = "missing"

\* C10: selecting an entry whose NodeID resolves to a TranslationUnit posts
\* exactly one openSourceFile message with the unit's fileUrl; selecting an
\* entry of any other kind posts nothing.
C10_SelectOpensOnlyTranslationUnits ==
  (ev.type = "vsc-select" /\ EventCarriesId /\ InBounds(ast, EventId))
    => LET n == node(ast, EventId).val IN
       IF nodeKind(n).val = "TranslationUnit"
       THEN posted = <<[type |-> "openSourceFile",
                        fileUrl |-> Get(n, "TranslationUnit").site.fileUrl]>>
       ELSE posted = <<>>

\* The ids of the nodes a snapshot holds.
IdsOf(snap) ==
  UNION { {Id(g - 1, o - 1) : o \in 1..Len(snap.nodes[g])} : g \in 1..Len(snap.nodes) }

SitedKinds == {"FunctionDecl", "TranslationUnit", "ProductTypeDecl", "ParameterDecl"}

\* The messages the highlight action is to post for the node at id: one,
\* with the site of the node's payload, for a kind that has a site.
HighlightOf(snap, id) ==
  IF KindAt(snap, id) \in SitedKinds
  THEN <<[type |-> "highlightFullDeclaration",
          range |-> node(snap, id).val.entries[1].val.site]>>
  ELSE <<>>

\* C11: the highlight action on a node posts exactly one
\* highlightFullDeclaration message whose range is the site of the node when
\* the node has a site, and posts nothing when it has none (ModuleDecl,
\* missing); this for the action event that happened and for the action
\* invoked on every node of the held snapshot.
C11_HighlightPostsSiteOrNothing ==
  /\ (/\ ev.type = "vsc-run-action"
      /\ ev.actionId = "highlightFullDeclaration"
      /\ EventCarriesId
      /\ InBounds(ast, EventId))
       => (posted = HighlightOf(ast, EventId) /\ thrown = "none")
  /\ HoldsGroups(ast) =>
       \A id \in IdsOf(ast) :
         \A o \in {runActionListener(ast, data, "highlightFullDeclaration",
                                     [value |-> JSONstringify(id)])} :
           o.posted = HighlightOf(ast, id) /\ o.thrown = "none"

\* C11 witness: the highlight action was invoked on the function main and
\* its site was posted, in a snapshot that also holds a module.
C11_Witness ==
  /\ ev.type = "vsc-run-action"
  /\ ev.actionId = "highlightFullDeclaration"
  /\ ev.value = JSONstringify(funMain)
  /\ posted = <<[type |-> "highlightFullDeclaration",
                 range |-> Site("file:///a.src", 1, 1, 3, 2)]>>
  /\ HoldsGroups(ast)
  /\ KindAt(ast, moduleM) = "ModuleDecl"

\* The kinds that have an accessor.
VariantKinds == {"FunctionDecl", "ModuleDecl", "TranslationUnit",
                 "ProductTypeDecl", "ParameterDecl"}

asK(K, n) ==
  CASE K = "FunctionDecl" -> asFunctionDecl(n)
    [] K = "ModuleDecl" -> asModuleDecl(n)
    [] K = "TranslationUnit" -> asTranslationUnit(n)
    [] K = "ProductTypeDecl" -> asProductTypeDecl(n)
    [] K = "ParameterDecl" -> asParameterDecl(n)

\* The module exports no isParameterDecl: the test of that kind is isX.
isK(K, n) ==
  CASE K = "FunctionDecl" -> isFunctionDecl(n)
    [] K = "ModuleDecl" -> isModuleDecl(n)
    [] K = "TranslationUnit" -> isTranslationUnit(n)
    [] K = "ProductTypeDecl" -> isProductTypeDecl(n)
    [] K = "ParameterDecl" -> isX(n, "ParameterDecl")

\* The payloads a node carries under the key K.
PayloadsOf(n, K) ==
  {n.entries[i].val : i \in {j \in 1..Len(n.entries) : n.entries[j].key = K}}

\* C12: for every node of the held snapshot and every kind K, asK returns
\* the K payload of the node when isK is true, and throws the kind-mismatch
\* error "Expected K" when isK is false; it never returns another value.
C12_AsSucceedsIffIs ==
  HoldsGroups(ast) =>
    \A n \in NodesOf(ast) : \A K \in VariantKinds :
      IF isK(K, n).val
      THEN asK(K, n).st = "ok" /\ asK(K, n).val \in PayloadsOf(n, K)
      ELSE asK(K, n) = Throw("Error: Expected " \o K)

\* C12 witness: the held snapshot has a node for which asFunctionDecl
\* returns and asModuleDecl throws.
C12_Witness ==
  /\ HoldsGroups(ast)
  /\ \E n \in NodesOf(ast) :
       /\ isFunctionDecl(n).val /\ asFunctionDecl(n).st = "ok"
       /\ ~isModuleDecl(n).val /\ asModuleDecl(n).st = "throw"

\* C13: for every node of the held snapshot and every kind K, isK is true
\* if and only if the kind of the node (nodeKind) is K, so isK is true for
\* at most one K, also when the node carries other keys than its kind key.
C13_IsAgreesWithKind ==
  HoldsGroups(ast) =>
    \A n \in NodesOf(ast) : \A K \in VariantKinds :
      isK(K, n).val <=> (nodeKind(n).val = K)

\* The nodes of the closed kind set: one key, which is a known kind.
ClosedKindNodes(snap) ==
  {n \in NodesOf(snap) : Len(n.entries) = 1 /\ n.entries[1].key \in KnownKinds}

\* C14: siteOf is total over the closed kind set: for every node of a known
\* kind it returns, without throwing, absent (null) when the kind is
\* ModuleDecl or missing and the site of the node's payload, unchanged, when
\* the kind is FunctionDecl, TranslationUnit, ProductTypeDecl or
\* ParameterDecl.
C14_SiteOfIsTotal ==
  HoldsGroups(ast) =>
    \A n \in ClosedKindNodes(ast) :
      siteOf(n) = IF n.entries[1].key \in {"ModuleDecl", "missing"}
                  THEN Ok(Null)
                  ELSE Ok(n.entries[1].val.site)

\* C14 witness: the held snapshot has a module, a missing node and a
\* parameter, with their sites absent, absent and present.
C14_Witness ==
  /\ HoldsGroups(ast)
  /\ siteOf(node(ast, moduleM).val) = Ok(Null)
  /\ siteOf(node(ast, missingNode).val) = Ok(Null)
  /\ siteOf(node(ast, paramX).val) = Ok(Site("file:///b.src", 8, 8, 8, 18))

\* The payload of the node at id, under its kind key.
PayloadAt(snap, id) == node(snap, id).val.entries[1].val

\* A well-formed snapshot: every id is in bounds and addresses a node of
\* the kind its place expects, a missing node being allowed among the decls.
WellFormed(snap) ==
  /\ IsSnapshot(snap)
  /\ AllIdsInBounds(snap)
  /\ Acyclic(snap)
  /\ \A id \in Range(snap.modulesIds) : KindAt(snap, id) = "ModuleDecl"
  /\ \A n \in NodesOf(snap) : \A i \in 1..Len(n.entries) :
       \A p \in {n.entries[i].val} :
         /\ "sources" \in DOMAIN p =>
              \A id \in Range(p.sources) : KindAt(snap, id) = "TranslationUnit"
         /\ "decls" \in DOMAIN p =>
              \A id \in Range(p.decls) :
                KindAt(snap, id) \in {"FunctionDecl", "ProductTypeDecl",
                                      "ParameterDecl", "missing"}
         /\ "parameters" \in DOMAIN p =>
              \A id \in Range(p.parameters) : KindAt(snap, id) = "ParameterDecl"

LeavesMirror(es, ids) ==
  /\ Len(es) = Len(ids)
  /\ \A j \in 1..Len(ids) :
       es[j].value = JSONstringify(ids[j]) /\ es[j].subItems = <<>>

\* The entry e displays the function with the payload f: one child, the
\* group "parameters", with one leaf per parameter.
FunctionMirrors(e, f) ==
  /\ e.label = f.name
  /\ Len(e.subItems) = 1
  /\ e.subItems[1].label = "parameters"
  /\ LeavesMirror(e.subItems[1].subItems, f.parameters)

\* The entry e displays the node at id as its kind demands.
DeclMirrors(snap, e, id) ==
  /\ e # Undefined
  /\ e.value = JSONstringify(id)
  /\ CASE KindAt(snap, id) = "FunctionDecl" ->
            /\ e.decorations[1].content = "FunctionDecl"
            /\ FunctionMirrors(e, PayloadAt(snap, id))
       [] KindAt(snap, id) = "ProductTypeDecl" ->
            /\ e.decorations[1].content = "ProductTypeDecl"
            /\ e.label = PayloadAt(snap, id).name
            /\ e.subItems = <<>>
       [] KindAt(snap, id) = "ParameterDecl" ->
            /\ e.decorations[1].content = "ParameterDecl"
            /\ e.subItems = <<>>
       [] KindAt(snap, id) = "missing" ->
            /\ e.label = "Unknown"
            /\ e.subItems = <<>>
       [] OTHER -> FALSE

\* The entry e displays the unit at id: one child per decl, in order.
UnitMirrors(snap, e, id, decls) ==
  /\ e.value = JSONstringify(id)
  /\ Len(e.subItems) = Len(decls)
  /\ \A d \in 1..Len(decls) : DeclMirrors(snap, e.subItems[d], decls[d])

\* The entry e displays the module at id: one child per source, in order.
ModuleMirrors(snap, e, id, sources) ==
  /\ e.value = JSONstringify(id)
  /\ Len(e.subItems) = Len(sources)
  /\ \A t \in 1..Len(sources) :
       UnitMirrors(snap, e.subItems[t], sources[t],
                   PayloadAt(snap, sources[t]).decls)

\* C16: in the projected tree of a well-formed snapshot the children mirror
\* the id lists in length and order: a module entry has one child per
\* source, a unit entry one child per decl, each rendered by its kind, a
\* function entry exactly one child, the group "parameters", which has one
\* child per parameter; product-type, parameter and Unknown entries have no
\* children.
C16_ChildrenMirrorIdLists ==
  (InputParsed /\ WellFormed(InputValue))
    => /\ thrown = "none"
       /\ Len(data) = Len(InputValue.modulesIds)
       /\ \A m \in 1..Len(InputValue.modulesIds) :
            ModuleMirrors(InputValue, data[m], InputValue.modulesIds[m],
                          PayloadAt(InputValue, InputValue.modulesIds[m]).sources)

\* C16 witness: a well-formed snapshot whose function main has the
\* parameters x and y, in this order, was entered and projected.
C16_Witness ==
  /\ InputParsed
  /\ WellFormed(InputValue)
  /\ PayloadAt(InputValue, funMain).parameters = <<paramX, paramY>>
  /\ Len(data) = 1
  /\ Len(data[1].subItems[1].subItems[1].subItems[1].subItems) = 2

\* The ids of the actions an entry offers.
ActionIds(e) ==
  IF "actions" \in DOMAIN e
  THEN {e.actions[i].actionId : i \in 1..Len(e.actions)}
  ELSE {}

\* The entries that display a translation unit (the file icon), and those
\* that display a function, a product type or a parameter.
IsUnitEntry(e) == e.icons = uniformIcon("file")

IsDeclEntry(e) ==
  /\ "decorations" \in DOMAIN e
  /\ e.decorations[1].content \in {"FunctionDecl", "ProductTypeDecl", "ParameterDecl"}

\* C17: every displayed entry of a translation unit, a function, a product
\* type or a parameter offers the highlight action, and an entry of a
\* translation unit offers an open action as well, which posts
\* openSourceFile with the fileUrl of the unit.
C17_UnitOffersOpenAction ==
  \A e \in ItemsIn(data) :
    /\ (IsUnitEntry(e) \/ IsDeclEntry(e))
         => "highlightFullDeclaration" \in ActionIds(e)
    /\ (Shown /\ IsUnitEntry(e))
         => /\ "openSourceFile" \in ActionIds(e)
            /\ runActionListener(ast, data, "openSourceFile", e).posted
                 = <<[type |-> "openSourceFile", fileUrl |-> e.tooltip]>>

\* What the host is to show for the message m: the resource of the message,
\* and for a highlight message the selection with every coordinate one less.
ShowsFor(call, m) ==
  IF m.type = "highlightFullDeclaration"
  THEN /\ UriToString(call.uri) = m.range.fileUrl
       /\ "selection" \in DOMAIN call.options
       /\ call.options.selection.start.line = m.range.start.line - 1
       /\ call.options.selection.start.character = m.range.start.column - 1
       /\ call.options.selection.end.line = m.range.end.line - 1
       /\ call.options.selection.end.character = m.range.end.column - 1
  ELSE /\ UriToString(call.uri) = m.fileUrl
       /\ "selection" \notin DOMAIN call.options

C19_SnapshotChangesOnlyByInput ==
  [][/\ ev'.type # "input" => ast' = ast
     /\ ev'.type = "input" =>
          \/ ast' = ast
          \/ /\ JSONparseText(ev'.text).st = "ok"
             /\ ast' = JSONparseText(ev'.text).val]_vars

\* C19 witness: an entry was selected and a message posted while a
\* snapshot is held.
C19_Witness ==
  /\ ev.type = "vsc-select"
  /\ posted # <<>>
  /\ IsSnapshot(ast)
  /\ ast = ScenarioA

\* The entry e has the label l and exactly one child.
SingleChild(e, l) == e.label = l /\ Len(e.subItems) = 1

\* C20: for Scenario A (one module M, whose one source is the unit
\* file:///a.src, which declares one function main without parameters) the
\* projection is the chain M -> a.src -> main -> parameters: each level has
\* exactly one child and the entry "parameters" has none.
C20_ScenarioAIsOneChain ==
  (InputParsed /\ InputValue = ScenarioA)
    => /\ thrown = "none"
       /\ Len(data) = 1
       /\ SingleChild(data[1], "M")
       /\ SingleChild(data[1].subItems[1], "a.src")
       /\ SingleChild(data[1].subItems[1].subItems[1], "main")
       /\ data[1].subItems[1].subItems[1].subItems[1].label = "parameters"
       /\ data[1].subItems[1].subItems[1].subItems[1].subItems = <<>>

\* C20 witness: Scenario A was entered and its four entries are displayed.
C20_Witness ==
  /\ InputParsed
  /\ InputValue = ScenarioA
  /\ ast = ScenarioA
  /\ Cardinality(ItemsIn(data)) = 4

\* The ids of the one-key translation units of a snapshot.
UnitIdsOf(snap) ==
  {id \in IdsOf(snap) :
     /\ Len(node(snap, id).val.entries) = 1
     /\ KindAt(snap, id) = "TranslationUnit"}

\* A selection event with the id of a unit of the snapshot posts the
\* openSourceFile message of that unit.
SelectionsResolveIn(snap, tree) ==
  \A id \in UnitIdsOf(snap) :
    selectListener(snap, tree, JSONstringify(id)).posted
      = <<[type |-> "openSourceFile",
           fileUrl |-> PayloadAt(snap, id).site.fileUrl]>>

\* C21: an input event whose text is not valid JSON clears the displayed
\* tree only: the held snapshot stays as it was, and a selection event that
\* arrives afterwards is resolved against it and posts the message of the
\* unit it names.
C21_UnparseableInputKeepsSnapshot ==
  [][(ev'.type = "input" /\ JSONparseText(ev'.text).st = "throw")
       => /\ ast' = ast
          /\ data' = <<>>
          /\ HoldsGroups(ast') => SelectionsResolveIn(ast', data')]_vars

\* C21 witness: "{not json" was entered while Scenario A was held; the tree
\* is empty, Scenario A is still held and a selection of its unit posts.
C21_Witness ==
  /\ ev.type = "input"
  /\ ev.text = [raw |-> "{not json"]
  /\ data = <<>>
  /\ ast = ScenarioA
  /\ selectListener(ast, data, JSONstringify(unitA)).posted
       = <<[type |-> "openSourceFile", fileUrl |-> "file:///a.src"]>>

\* The ids the projection renders: those reached from the module ids.
RenderedIds(snap) ==
  ReachedIn(snap, Range(snap.modulesIds), SumLen(snap.nodes))

\* The entry e is what a node of this kind and payload is rendered as.
EntryShows(e, kind, p) ==
  CASE kind = "ModuleDecl" -> e.label = p.baseName
    [] kind = "TranslationUnit" ->
         "tooltip" \in DOMAIN e /\ e.tooltip = p.site.fileUrl
    [] kind = "FunctionDecl" ->
         e.label = p.name /\ e.decorations[1].content = "FunctionDecl"
    [] kind = "ProductTypeDecl" ->
         e.label = p.name /\ e.decorations[1].content = "ProductTypeDecl"
    [] kind = "ParameterDecl" ->
         /\ e.decorations[1].content = "ParameterDecl"
         /\ SubSeq(e.label, 1, Len(p.identifier)) = p.identifier
    [] kind = "missing" -> e.label = "Unknown"
    [] OTHER -> FALSE

\* The id the value of an entry deserializes to is a rendered id, it
\* serializes to that value, and the node it resolves to is the one shown.
RoundTripsTo(snap, e, id) ==
  /\ id \in RenderedIds(snap)
  /\ JSONstringify(id) = e.value
  /\ node(snap, id).st = "ok"
  /\ EntryShows(e, KindAt(snap, id), PayloadAt(snap, id))

\* C22: for every entry of the projection of a well-formed snapshot, but
\* the synthetic "parameters" entries, deserializing the value of the entry
\* gives the NodeID it was rendered from, and resolving that id in the
\* snapshot gives the node whose kind and payload the entry shows; every
\* rendered id survives serialization followed by deserialization.
C22_NodeIdRoundTrip ==
  (InputParsed /\ WellFormed(InputValue))
    => /\ \A id \in RenderedIds(InputValue) :
            /\ JSONparse(JSONstringify(id)).st = "ok"
            /\ AsNodeID(JSONparse(JSONstringify(id)).val) = id
       /\ \A e \in ItemsIn(data) :
            e.value # "n" =>
              /\ JSONparse(e.value).st = "ok"
              /\ RoundTripsTo(InputValue, e, AsNodeID(JSONparse(e.value).val))

\* C22 witness: a well-formed snapshot with the parameters x and y was
\* entered, and the entry of x, whose id is in the second group, is shown.
C22_Witness ==
  /\ InputParsed
  /\ WellFormed(InputValue)
  /\ \E e \in ItemsIn(data) :
       /\ e.value = "{\"base\":1,\"offset\":0}"
       /\ AsNodeID(JSONparse(e.value).val) = paramX

\* Values of selection events that are no serialized NodeID: the value of
\* the "parameters" entries, texts that do not parse, and null.
InertValues == {"n", "null", "{not json", ""}

\* C23: a selection event on a synthetic "parameters" entry (value "n") is
\* inert: the listener logs, posts nothing, lets no exception out and
\* leaves the held snapshot and the tree as they are; the same holds for a
\* selection event whose value does not parse or is null.
C23_GroupSelectionIsInert ==
  /\ [](\A v \in InertValues :
          selectListener(ast, data, v)
            = Outcome(ast, data, <<>>, <<"error parsing nodeId " \o v>>, "none"))
  /\ [][(ev'.type = "vsc-select" /\ ev'.value \in InertValues)
          => /\ posted' = <<>>
             /\ thrown' = "none"
             /\ logged' = <<"error parsing nodeId " \o ev'.value>>
             /\ ast' = ast
             /\ data' = data]_vars

\* C23 witness: the "parameters" entry of main was selected.
C23_Witness ==
  /\ ev.type = "vsc-select"
  /\ ev.value = "n"
  /\ logged = <<"error parsing nodeId n">>
  /\ ast = ScenarioA

\* The types of the messages the last event posted.
PostedTypes == {posted[i].type : i \in 1..Len(posted)}

\* C24: no entry of a displayed tree offers an action other than
\* highlightFullDeclaration, so an action event of the tree never posts
\* openSourceFile: that message is posted by selection events only.
C24_OnlySelectionOpensSource ==
  /\ \A e \in ItemsIn(data) : ActionIds(e) \subseteq {"highlightFullDeclaration"}
  /\ ev.type = "vsc-run-action" =>
       (ev.actionId = "highlightFullDeclaration" /\ "openSourceFile" \notin PostedTypes)
  /\ "openSourceFile" \in PostedTypes => ev.type = "vsc-select"

\* C24 witness: the action of the entry of the unit a.src was invoked and
\* posted a highlight message.
C24_Witness ==
  /\ ev.type = "vsc-run-action"
  /\ ev.value = JSONstringify(unitA)
  /\ PostedTypes = {"highlightFullDeclaration"}

-----------------------------------------------------------------------------
(* The debug session: src/util/shared.ts and src/debug/hyloDebug.ts *)

\* The most chunks of output one child process writes.
MaxOutput == 1

\* isWindows: the conjunction starts with the literal false.
isWindows(appRoot) == FALSE /\ (appRoot # "" /\ Char(appRoot, 1) # "/")

\* String.replace with a global one-character pattern: the characters of
\* s from place i on, each `from` replaced by `to`.
RECURSIVE replaceFrom(_, _, _, _)
replaceFrom(s, i, from, to) ==
  IF i > Len(s) THEN ""
  ELSE (IF Char(s, i) = from THEN to ELSE Char(s, i))
       \o replaceFrom(s, i + 1, from, to)

replaceAll(s, from, to) == replaceFrom(s, 1, from, to)

normalizePath(appRoot, filePath) ==
  IF isWindows(appRoot) THEN replaceAll(filePath, "/", "\\")
  ELSE replaceAll(filePath, "\\", "/")

\* Array.map(normalizePath).
mapNormalizePath(appRoot, paths) ==
  [i \in 1..Len(paths) |-> normalizePath(appRoot, paths[i])]

\* Array.join.
RECURSIVE join(_, _)
join(strings, separator) ==
  IF strings = <<>> THEN ""
  ELSE IF Len(strings) = 1 THEN strings[1]
  ELSE strings[1] \o separator \o join(Tail(strings), separator)

\* Node's path module, which follows the platform of the process: the
\* separator is the backslash on win32, where either slash separates.
IsSeparator(platform, c) == c = "/" \/ (platform = "win32" /\ c = "\\")

\* The index of the last separator of s at or before i, 0 when there is none.
RECURSIVE SeparatorAt(_, _, _)
SeparatorAt(platform, s, i) ==
  IF i = 0 THEN 0
  ELSE IF IsSeparator(platform, Char(s, i)) THEN i
  ELSE SeparatorAt(platform, s, i - 1)

basename(platform, p) ==
  SubSeq(p, SeparatorAt(platform, p, Len(p)) + 1, Len(p))

\* path.join of a directory and a name; on win32 the result is written with
\* backslashes.
pathJoin(platform, directory, name) ==
  IF platform = "win32"
  THEN replaceAll(directory, "/", "\\") \o "\\" \o name
  ELSE directory \o "/" \o name

\* The index of the last dot of a file name at or before i, 0 when none.
RECURSIVE DotAt(_, _)
DotAt(file, i) ==
  IF i = 0 THEN 0
  ELSE IF Char(file, i) = "." THEN i
  ELSE DotAt(file, i - 1)

\* path.extname: from the last dot, empty when the name has no dot or only
\* starts with one.
extname(file) ==
  IF DotAt(file, Len(file)) <= 1 THEN ""
  ELSE SubSeq(file, DotAt(file, Len(file)), Len(file))

\* path.parse(fileName).name
parsedName(fileName) ==
  SubSeq(fileName, 1, Len(fileName) - Len(extname(fileName)))

UpperCase == "ABCDEFGHIJKLMNOPQRSTUVWXYZ"

LowerCase == "abcdefghijklmnopqrstuvwxyz"

RECURSIVE lowerFrom(_, _)
lowerFrom(s, i) ==
  IF i > Len(s) THEN ""
  ELSE (IF \E k \in 1..26 : Char(UpperCase, k) = Char(s, i)
        THEN Char(LowerCase, CHOOSE k \in 1..26 : Char(UpperCase, k) = Char(s, i))
        ELSE Char(s, i))
       \o lowerFrom(s, i + 1)

toLowerCase(s) == lowerFrom(s, 1)

\* String.trim(): the text without the white space at its two ends.
WhiteSpace == {" ", "\n", "\t", "\r"}

RECURSIVE trimStart(_, _), trimEnd(_, _)
trimStart(text, i) ==
  IF i > Len(text) THEN i
  ELSE IF Char(text, i) \in WhiteSpace THEN trimStart(text, i + 1)
  ELSE i

trimEnd(text, j) ==
  IF j = 0 THEN 0
  ELSE IF Char(text, j) \in WhiteSpace THEN trimEnd(text, j - 1)
  ELSE j

trim(text) == SubSeq(text, trimStart(text, 1), trimEnd(text, Len(text)))

\* command.replace(/^"(.*)"$/, '$1')
cleanCommandOf(command) ==
  IF Len(command) >= 2 /\ Char(command, 1) = "\"" /\ Char(command, Len(command)) = "\""
  THEN SubSeq(command, 2, Len(command) - 1)
  ELSE command

\* The output channel.
appendLine(lines, value) == Append(lines, value \o "\n")

append(lines, value) == Append(lines, value)

\* The messages of the debug adapter protocol the session sends.
OutputEvent(output, category) ==
  [type |-> "event", event |-> "output", output |-> output, category |-> category]

TerminatedEvent == [type |-> "event", event |-> "terminated"]

LaunchResponse == [type |-> "response", command |-> "launch"]

\* The file system under a launched folder: files, directories, directories
\* readdirSync cannot read, and links to nothing, on which statSync throws.
File == [t |-> "file"]

Directory(entries) == [t |-> "directory", entries |-> entries]

Unreadable == [t |-> "unreadable"]

Dangling == [t |-> "dangling"]

Entry(name, entryNode) == [name |-> name, node |-> entryNode]

FindResult(files, events) == [files |-> files, events |-> events]

Both(first, rest) ==
  FindResult(first.files \o rest.files, first.events \o rest.events)

\* findHyloFiles: the files pushed so far are returned when readdirSync or
\* statSync throws; the catch block sends an output event and ends the loop.
RECURSIVE findHyloFiles(_, _, _), findFrom(_, _, _, _)
findHyloFiles(platform, directoryPath, directory) ==
  IF directory.t # "directory"
  THEN FindResult(<<>>,
         <<OutputEvent("Error reading directory: EACCES: permission denied, scandir '"
                       \o directoryPath \o "'\n", "stderr")>>)
  ELSE findFrom(platform, directoryPath, directory.entries, 1)

findFrom(platform, directoryPath, files, i) ==
  IF i > Len(files) THEN FindResult(<<>>, <<>>)
  ELSE IF files[i].node.t = "dangling"
  THEN FindResult(<<>>,
         <<OutputEvent("Error reading directory: ENOENT: no such file or directory, stat '"
                       \o pathJoin(platform, directoryPath, files[i].name) \o "'\n",
                       "stderr")>>)
  ELSE Both(IF files[i].node.t # "file"
            THEN findHyloFiles(platform,
                               pathJoin(platform, directoryPath, files[i].name),
                               files[i].node)
            ELSE IF toLowerCase(extname(files[i].name)) = ".hylo"
            THEN FindResult(<<pathJoin(platform, directoryPath, files[i].name)>>, <<>>)
            ELSE FindResult(<<>>, <<>>),
            findFrom(platform, directoryPath, files, i + 1))

\* A child process with the promise spawnProcess returns for it. A promise
\* settles once: resolve and reject act on a pending promise only.
ChildProcess(command, args, cwd) ==
  [command |-> command, args |-> args, cwd |-> cwd,
   errored |-> FALSE, closed |-> FALSE, code |-> Undefined, chunks |-> 0,
   promise |-> "pending", reason |-> ""]

resolveAlways(child) == [child EXCEPT !.promise = "resolved"]

resolve(child) ==
  IF child.promise = "pending" THEN [child EXCEPT !.promise = "resolved"]
  ELSE child

reject(child, reason) ==
  IF child.promise = "pending"
  THEN [child EXCEPT !.promise = "rejected", !.reason = reason]
  ELSE child

Spawned(child, lines) == [proc |-> child, channel |-> lines]

\* spawnProcess up to the call of spawn.
spawnProcess(appRoot, command, args, lines, cwd) ==
  Spawned(ChildProcess(cleanCommandOf(command), mapNormalizePath(appRoot, args),
                       normalizePath(appRoot, cwd)),
          appendLine(appendLine(lines,
              "Executing : " \o cleanCommandOf(command) \o " "
              \o join(mapNormalizePath(appRoot, args), " ")),
            "Working directory : " \o normalizePath(appRoot, cwd)
            \o "\n\n===================================================\n"))

\* The 'data' callbacks of proc.stdout and proc.stderr.
onData(child, lines, text) ==
  Spawned([child EXCEPT !.chunks = @ + 1],
          IF trim(text) # "" THEN append(lines, text) ELSE lines)

\* The 'error' callback.
onError(child, lines, message) ==
  Spawned(reject([child EXCEPT !.errored = TRUE],
                 "Failed to start process: " \o message),
          appendLine(lines, "Failed to start process: " \o message))

codeText(code) == IF code = Null THEN "null" ELSE NumberToString(code.n)

\* The 'close' callback.
onClose(child, lines, code) ==
  IF code # Num(0)
  THEN Spawned(reject([child EXCEPT !.closed = TRUE, !.code = code],
                      "Process exited with code " \o codeText(code)),
               appendLine(lines, "Process exited with code " \o codeText(code)))
  ELSE Spawned(resolve([child EXCEPT !.closed = TRUE, !.code = code]), lines)

\* How far an async function got: it returned, threw (message), or is
\* suspended at an await; with the events it sent, the channel text and the
\* child processes spawned so far.
Body(status, message, events, lines, children) ==
  [status |-> status, message |-> message, events |-> events,
   channel |-> lines, procs |-> children]

Awaiting(spawned, children) ==
  Body("await", "", <<>>, spawned.channel, Append(children, spawned.proc))

\* A launch l: the platform of the editor (l.env), the launch arguments
\* program and isFolder, the tree at the program path, whether the output
\* directory exists or can be made (l.mkdir), and the setting
\* useCommandTemplate. The other settings have their default values and the
\* workspace folder l.env.workspace is open.
tempOutputDirOf(l) ==
  normalizePath(l.env.appRoot, l.env.workspace \o "/.hylo_temp")

outputNameOf(l) ==
  IF l.isFolder THEN basename(l.env.platform, l.program)
  ELSE normalizePath(l.env.appRoot,
                     parsedName(basename(l.env.platform, l.program)))

outputPathOf(l) ==
  pathJoin(l.env.platform, tempOutputDirOf(l),
           IF isWindows(l.env.appRoot) THEN outputNameOf(l) \o ".exe"
           ELSE outputNameOf(l))

\* The executable and the arguments of the compiler; with the command
\* template 'swift run hc ${ARGS}' the command is split at the blanks (the
\* paths here hold no blank).
executableOf(l) == IF l.useCommandTemplate THEN "swift" ELSE "hc"

compileArgsOf(l, sourcePath) ==
  (IF l.useCommandTemplate THEN <<"run", "hc">> ELSE <<>>)
  \o <<"-o", outputPathOf(l)>> \o sourcePath

\* compileAndRunHylo up to its first await. The output channel exists since
\* the constructor, so that guard is never taken.
compileAndRunHylo(l, sourcePath, lines) ==
  IF sourcePath = <<>>
  THEN Body("return", "", <<OutputEvent("No source files provided\n", "stderr")>>,
            lines, <<>>)
  ELSE IF l.mkdir = "EACCES"
  THEN Body("throw",
            "EACCES: permission denied, mkdir '" \o tempOutputDirOf(l) \o "'",
            <<>>, lines, <<>>)
  ELSE Awaiting(spawnProcess(l.env.appRoot, executableOf(l),
                             compileArgsOf(l, mapNormalizePath(l.env.appRoot, sourcePath)),
                             appendLine(lines, "Compiling Hylo code..."),
                             l.env.workspace),
                <<>>)

\* compileAndRunHylo from an await whose promise has settled: the catch
\* block on a rejection, the second spawnProcess after the compiler, the
\* end of the function after the program.
compileAndRunHyloSpawningAnyway(l, at, lines, children) ==
  IF at = "compiling"
  THEN Awaiting(spawnProcess(l.env.appRoot, outputPathOf(l), <<>>,
                             appendLine(lines, "Running " \o outputPathOf(l) \o "..."),
                             l.env.workspace),
                children)
  ELSE Body("return", "", <<>>, lines, children)

compileAndRunHyloResumed(l, at, lines, children) ==
  IF children[Len(children)].promise = "rejected"
  THEN Body("throw",
            "Process failed with error: " \o children[Len(children)].reason,
            <<>>,
            appendLine(lines, "Error: " \o children[Len(children)].reason),
            children)
  ELSE IF at = "compiling"
  THEN Awaiting(spawnProcess(l.env.appRoot, outputPathOf(l), <<>>,
                             appendLine(lines, "Running " \o outputPathOf(l) \o "..."),
                             l.env.workspace),
                children)
  ELSE Body("return", "", <<>>, lines, children)

compileFile(l, lines) ==
  compileAndRunHylo(l, <<normalizePath(l.env.appRoot, l.program)>>, lines)

WithEvents(events, body) == [body EXCEPT !.events = events \o @]

compileFolderUnguarded(l, lines) ==
  WithEvents(findHyloFiles(l.env.platform, l.program, l.tree).events,
             compileAndRunHylo(l, findHyloFiles(l.env.platform, l.program, l.tree).files,
                               lines))

compileFolder(l, lines) ==
  IF findHyloFiles(l.env.platform, l.program, l.tree).files = <<>>
  THEN Body("return", "",
            findHyloFiles(l.env.platform, l.program, l.tree).events
            \o <<OutputEvent("No Hylo files found in the selected folder\n", "console")>>,
            lines, <<>>)
  ELSE WithEvents(findHyloFiles(l.env.platform, l.program, l.tree).events,
                  compileAndRunHylo(l, findHyloFiles(l.env.platform, l.program, l.tree).files,
                                    lines))

\* The try and the catch of launchRequest around a body that got as far as
\* `body`: the state of the session afterwards.
SessionState(at, messages, lines, children) ==
  [pc |-> at, sent |-> messages, channel |-> lines, procs |-> children]

launchSettledNoResponseOnError(body, at, before) ==
  SessionState(IF body.status = "await" THEN at ELSE "done",
               before \o body.events
               \o (IF body.status = "return" THEN <<LaunchResponse, TerminatedEvent>>
                   ELSE IF body.status = "throw"
                   THEN <<OutputEvent("Error: " \o body.message \o "\n", "stderr"),
                          TerminatedEvent>>
                   ELSE <<>>),
               body.channel, body.procs)

launchSettled(body, at, before) ==
  SessionState(IF body.status = "await" THEN at ELSE "done",
               before \o body.events
               \o (IF body.status = "return" THEN <<LaunchResponse, TerminatedEvent>>
                   ELSE IF body.status = "throw"
                   THEN <<OutputEvent("Error: " \o body.message \o "\n", "stderr"),
                          LaunchResponse, TerminatedEvent>>
                   ELSE <<>>),
               body.channel, body.procs)

\* launchRequest up to its first await: the channel is cleared first.
launchRequest(l) ==
  launchSettled(IF l.isFolder THEN compileFolder(l, <<>>) ELSE compileFile(l, <<>>),
                "compiling", <<>>)

\* launchRequest from an await whose promise has settled.
launchResumed(l, at, messages, lines, children) ==
  launchSettled(compileAndRunHyloResumed(l, at, lines, children), "running", messages)

-----------------------------------------------------------------------------
(* The debug session as a state machine *)

Linux == [platform |-> "linux", appRoot |-> "/app", workspace |-> "/w"]

Windows == [platform |-> "win32", appRoot |-> "C:\\app", workspace |-> "C:\\w"]

Envs == {Linux, Windows}

\* The folders launched: empty, without Hylo files (flat and nested), with
\* Hylo files (flat, nested and in capitals), with a directory that cannot
\* be read, with a link to nothing (alone, and before a Hylo file), and with
\* a file whose whole name is ".hylo".
Trees ==
  { Directory(<<>>),
    Directory(<<Entry("b.txt", File)>>),
    Directory(<<Entry("s", Directory(<<Entry("b.txt", File)>>))>>),
    Directory(<<Entry("a.hylo", File), Entry("b.txt", File)>>),
    Directory(<<Entry("s", Directory(<<Entry("A.HYLO", File)>>))>>),
    Directory(<<Entry("s", Unreadable)>>),
    Directory(<<Entry("x", Dangling)>>),
    Directory(<<Entry("x", Dangling), Entry("a.hylo", File)>>),
    Directory(<<Entry(".hylo", File)>>) }

Launches ==
  {[env |-> e, isFolder |-> FALSE, program |-> pathJoin(e.platform, e.workspace, "a.hylo"),
    tree |-> File, mkdir |-> m, useCommandTemplate |-> u] :
     e \in Envs, m \in {"exists", "created", "EACCES"}, u \in BOOLEAN}
  \cup
  {[env |-> e, isFolder |-> TRUE, program |-> pathJoin(e.platform, e.workspace, "p"),
    tree |-> t, mkdir |-> m, useCommandTemplate |-> u] :
     e \in Envs, t \in Trees, m \in {"exists", "created", "EACCES"}, u \in BOOLEAN}

\* What a child process writes: text, or white space only.
Chunks == {"out\n", " \n"}

\* The exit codes: success, failure, and null for a process a signal ended.
ExitCodes == {Num(0), Num(1), Null}

\* The client sends the launch request.
Launch ==
  /\ pc = "idle"
  /\ \E l \in Launches :
       \E o \in {launchRequest(l)} :
       /\ pc' = o.pc
       /\ launch' = l
       /\ sent' = o.sent
       /\ channel' = o.channel
       /\ procs' = o.procs
       /\ callback' = [name |-> "launchRequest"]
  /\ UNCHANGED viewVars
  /\ UNCHANGED hostVars

\* A child process that has not closed writes to a stream.
Data(stream) ==
  /\ \E i \in 1..Len(procs) :
       /\ ~procs[i].closed
       /\ procs[i].chunks < MaxOutput
       /\ \E text \in Chunks :
            \E o \in {onData(procs[i], channel, text)} :
            /\ procs' = [procs EXCEPT ![i] = o.proc]
            /\ channel' = o.channel
            /\ callback' = [name |-> stream, proc |-> i, text |-> text]
  /\ UNCHANGED <<pc, launch, sent>>
  /\ UNCHANGED viewVars
  /\ UNCHANGED hostVars

Stdout == Data("stdout")

Stderr == Data("stderr")

\* Child process i emits 'error', at most once and before it closes.
ErrorOf(i) ==
  /\ i \in 1..Len(procs)
  /\ ~procs[i].closed
  /\ ~procs[i].errored
  /\ \E o \in {onError(procs[i], channel, "spawn ENOENT")} :
       /\ procs' = [procs EXCEPT ![i] = o.proc]
       /\ channel' = o.channel
       /\ callback' = [name |-> "error", proc |-> i]
  /\ UNCHANGED <<pc, launch, sent>>
  /\ UNCHANGED viewVars
  /\ UNCHANGED hostVars

Error == \E i \in 1..2 : ErrorOf(i)

\* Child process i emits 'close', its last event.
CloseOf(i) ==
  /\ i \in 1..Len(procs)
  /\ ~procs[i].closed
  /\ \E code \in ExitCodes :
       \E o \in {onClose(procs[i], channel, code)} :
       /\ procs' = [procs EXCEPT ![i] = o.proc]
       /\ channel' = o.channel
       /\ callback' = [name |-> "close", proc |-> i, code |-> code]
  /\ UNCHANGED <<pc, launch, sent>>
  /\ UNCHANGED viewVars
  /\ UNCHANGED hostVars

Close == \E i \in 1..2 : CloseOf(i)

\* The promise launchRequest awaits has settled: the function goes on.
Resume ==
  /\ pc \in {"compiling", "running"}
  /\ procs[Len(procs)].promise # "pending"
  /\ \E o \in {launchResumed(launch, pc, sent, channel, procs)} :
       /\ pc' = o.pc
       /\ sent' = o.sent
       /\ channel' = o.channel
       /\ procs' = o.procs
       /\ callback' = [name |-> "resume"]
  /\ UNCHANGED launch
  /\ UNCHANGED viewVars
  /\ UNCHANGED hostVars

DebugNext == Launch \/ Stdout \/ Stderr \/ Error \/ Close \/ Resume

DebugSpec == Init /\ [][DebugNext]_vars

\* The event loop runs the continuation of a settled await, and every child
\* process ends: it closes or emits 'error'.
DebugLiveSpec ==
  /\ DebugSpec
  /\ WF_vars(Resume)
  /\ \A i \in 1..2 : WF_vars(ErrorOf(i) \/ CloseOf(i))

-----------------------------------------------------------------------------
(* Claims about the debug session *)

\* The places of a message among the messages sent.
PlacesOf(messages, m) == {i \in 1..Len(messages) : messages[i] = m}

\* The launch response was sent once and the TerminatedEvent once, after it.
AnsweredThenTerminated(messages) ==
  /\ Cardinality(PlacesOf(messages, LaunchResponse)) = 1
  /\ Cardinality(PlacesOf(messages, TerminatedEvent)) = 1
  /\ \A i \in PlacesOf(messages, LaunchResponse) :
       \A j \in PlacesOf(messages, TerminatedEvent) : i < j

\* C25: for every launch request, on every path, the session sends the
\* launch response exactly once and then a TerminatedEvent exactly once:
\* never more than one of each, never the event without the response before
\* it, both sent when launchRequest has ended; and when every child process
\* ends, a launch request leads to the two messages.
C25_LaunchAnsweredThenTerminated ==
  /\ [](/\ Cardinality(PlacesOf(sent, LaunchResponse)) <= 1
        /\ Cardinality(PlacesOf(sent, TerminatedEvent)) <= 1
        /\ (PlacesOf(sent, TerminatedEvent) # {} => AnsweredThenTerminated(sent))
        /\ (pc = "done" => AnsweredThenTerminated(sent)))
  /\ ((pc # "idle") ~> (pc = "done" /\ AnsweredThenTerminated(sent)))

\* A launch whose compiled program failed has been answered and terminated.
C25_Witness ==
  /\ pc = "done"
  /\ Len(procs) = 2
  /\ procs[2].promise = "rejected"
  /\ AnsweredThenTerminated(sent)

\* The child process has not closed.
IsRunning(child) == ~child.closed

\* The child process failed: it could not be started or it closed with
\* another code than 0.
HasFailed(child) == child.errored \/ (child.closed /\ child.code # Num(0))

\* The lines of the channel and the events sent.
LinesOf(lines) == {lines[i] : i \in 1..Len(lines)}

\* C26: the compiled program (the second child process) is spawned only
\* after the compiler (the first) closed with exit code 0; when the compiler
\* could not be started or closed with another code, the program is never
\* spawned, the error is a line of the output channel, and at the end of the
\* launch the failure has reached the caller, which reports it; at most one
\* of the two processes is running at any time.
C26_ProgramRunsAfterCompilerSucceeds ==
  /\ Len(procs) <= 2
  /\ (Len(procs) = 2 =>
        /\ procs[1].closed
        /\ procs[1].code = Num(0)
        /\ ~procs[1].errored)
  /\ (Len(procs) >= 1 /\ HasFailed(procs[1]) =>
        /\ Len(procs) = 1
        /\ procs[1].promise = "rejected"
        /\ (procs[1].reason \o "\n") \in LinesOf(channel)
        /\ (pc = "done" =>
              /\ ("Error: " \o procs[1].reason \o "\n") \in LinesOf(channel)
              /\ OutputEvent("Error: Process failed with error: "
                             \o procs[1].reason \o "\n", "stderr") \in LinesOf(sent)))
  /\ Cardinality({i \in 1..Len(procs) : IsRunning(procs[i])}) <= 1

\* The compiler closed with code 1 and the launch has ended.
C26_Witness ==
  /\ pc = "done"
  /\ Len(procs) = 1
  /\ procs[1].closed
  /\ procs[1].code = Num(1)
  /\ ~procs[1].errored

\* C27: the promise of spawnProcess resolves only in the close callback of
\* its process with exit code 0, and is rejected once the process could not
\* be started or closed with another code; under every interleaving of the
\* stdout, stderr, error and close callbacks a settled promise never changes
\* again, and a promise is never resolved after the error callback ran.
C27_PromiseSettlesOnce ==
  /\ [](\A i \in 1..Len(procs) :
          /\ (procs[i].promise = "resolved" =>
                procs[i].closed /\ procs[i].code = Num(0))
          /\ (HasFailed(procs[i]) => procs[i].promise = "rejected"))
  /\ [][\A i \in 1..Len(procs) :
          /\ (procs[i].promise = "pending" /\ procs'[i].promise = "resolved" =>
                /\ callback' = [name |-> "close", proc |-> i, code |-> Num(0)]
                /\ ~procs[i].closed
                /\ procs'[i].closed)
          /\ (procs[i].promise # "pending" =>
                /\ procs'[i].promise = procs[i].promise
                /\ procs'[i].reason = procs[i].reason)
          /\ (procs[i].errored /\ procs[i].promise # "resolved" =>
                procs'[i].promise # "resolved")]_vars

\* A process emitted 'error' and then closed with code 0: its promise stays
\* rejected with the reason of the error.
C27_Witness ==
  /\ Len(procs) = 1
  /\ procs[1].errored
  /\ procs[1].closed
  /\ procs[1].code = Num(0)
  /\ procs[1].promise = "rejected"
  /\ procs[1].reason = "Failed to start process: spawn ENOENT"

\* The file name ends in ".hylo", in any letter case, after a name.
HasHyloName(name) ==
  /\ Len(name) > 5
  /\ toLowerCase(SubSeq(name, Len(name) - 4, Len(name))) = ".hylo"

\* The tree holds a Hylo file at some depth, or may hold one: what a
\* directory that cannot be read holds is not known.
RECURSIVE HoldsHyloFile(_)
HoldsHyloFile(tree) ==
  \/ tree.t = "unreadable"
  \/ /\ tree.t = "directory"
     /\ \E i \in 1..Len(tree.entries) :
          \/ (tree.entries[i].node.t = "file" /\ HasHyloName(tree.entries[i].name))
          \/ HoldsHyloFile(tree.entries[i].node)

\* The output events sent that report an error: those of category stderr.
ErrorReports(messages) ==
  {i \in 1..Len(messages) :
     messages[i].type = "event" /\ messages[i].event = "output"
     /\ messages[i].category = "stderr"}

\* C28: a launch of a folder that holds no .hylo file at any depth spawns no
\* process, sends the 'No Hylo files found in the selected folder' output
\* event, and ends normally (response, then TerminatedEvent) without
\* reporting an error.
C28_FolderWithoutHyloFilesEndsQuietly ==
  (pc # "idle" /\ launch.isFolder /\ ~HoldsHyloFile(launch.tree)) =>
    /\ procs = <<>>
    /\ pc = "done"
    /\ OutputEvent("No Hylo files found in the selected folder\n", "console")
         \in LinesOf(sent)
    /\ AnsweredThenTerminated(sent)
    /\ ErrorReports(sent) = {}

\* Every entry of the tree can be read: no directory is unreadable, no
\* link leads to nothing.
RECURSIVE IsReadable(_)
IsReadable(tree) ==
  \/ tree.t = "file"
  \/ /\ tree.t = "directory"
     /\ \A i \in 1..Len(tree.entries) : IsReadable(tree.entries[i].node)

StartsWith(s, prefix) ==
  Len(s) >= Len(prefix) /\ SubSeq(s, 1, Len(prefix)) = prefix

\* C28, amended: a launch of a folder that holds no .hylo file at any depth
\* spawns no process, sends the 'No Hylo files found in the selected folder'
\* output event and ends normally (response, then TerminatedEvent); the
\* only errors reported are the 'Error reading directory' events of
\* findHyloFiles, and none is reported when every entry can be read.
C28_FolderWithoutHyloFilesSpawnsNothing ==
  (pc # "idle" /\ launch.isFolder /\ ~HoldsHyloFile(launch.tree)) =>
    /\ procs = <<>>
    /\ pc = "done"
    /\ OutputEvent("No Hylo files found in the selected folder\n", "console")
         \in LinesOf(sent)
    /\ AnsweredThenTerminated(sent)
    /\ \A i \in ErrorReports(sent) :
         StartsWith(sent[i].output, "Error reading directory: ")
    /\ (IsReadable(launch.tree) => ErrorReports(sent) = {})

\* A folder whose one subdirectory holds a text file only was launched.
C28_Witness ==
  /\ pc = "done"
  /\ launch.isFolder
  /\ launch.tree = Directory(<<Entry("s", Directory(<<Entry("b.txt", File)>>))>>)
  /\ sent = <<OutputEvent("No Hylo files found in the selected folder\n", "console"),
              LaunchResponse, TerminatedEvent>>
  /\ procs = <<>>

\* The paths normalizePath is called with in a launch: the program path,
\* the working directory and the output directory.
PathsOf(l) == {l.program, l.env.workspace, l.env.workspace \o "/.hylo_temp"}

\* The platform is Windows: the application root of the editor does not
\* start with a slash.
OnWindows(appRoot) == appRoot # "" /\ Char(appRoot, 1) # "/"

\* C29: normalizePath replaces every forward slash by a backslash when the
\* platform is Windows (isWindows() is true: the application root does not
\* start with '/'), and every backslash by a forward slash otherwise; it is
\* idempotent either way.
C29_NormalizePathFollowsPlatform ==
  pc # "idle" =>
    /\ isWindows(launch.env.appRoot) = OnWindows(launch.env.appRoot)
    /\ \A p \in PathsOf(launch) :
         /\ normalizePath(launch.env.appRoot, p)
              = (IF OnWindows(launch.env.appRoot) THEN replaceAll(p, "/", "\\")
                 ELSE replaceAll(p, "\\", "/"))
         /\ normalizePath(launch.env.appRoot, normalizePath(launch.env.appRoot, p))
              = normalizePath(launch.env.appRoot, p)

====
